---- MODULE Spec2Model ----
(***************************************************************************)
(* A model of the two notification builders of the repository: the         *)
(* Field-style builder (class Slack, src/unnamed/part_000) and the         *)
(* Card-style builder (class Teams, src/teams.js), and of their delivery   *)
(* pipelines.                                                              *)
(*                                                                         *)
(* A JavaScript string is a sequence of characters, so that the            *)
(* conversions of the code (escapeText, startCase, String, JSON.stringify, *)
(* trim, encodeURIComponent) are computed character by character.  A       *)
(* literal of the source that no conversion looks into is written as one   *)
(* element ("App Info:") where its length plays no part.                   *)
(***************************************************************************)
EXTENDS Integers, Sequences, FiniteSets, TLC

\* ------------------------------------------------------------------------
\* JavaScript values

\* The value `undefined` of a string-valued property (no character is
\* "<undefined>": characters are one-character strings).
undefined == << "<undefined>" >>

\* JavaScript truthiness of a string-valued property: undefined and '' are falsy.
Truthy(s) == s # undefined /\ s # << >>

\* A value handed to stats(): <<type>> or <<type, payload>>.
JsString(s)  == << "string", s >>
JsNumber(n)  == << "number", n >>
JsBoolean(b) == << "boolean", b >>
JsNull       == << "null" >>
JsUndefined  == << "undefined" >>
\* an object {k1: n1, ...} as a sequence of <<key, number>>, an array of numbers
JsObject(kv) == << "object", kv >>
JsArray(xs)  == << "array", xs >>

\* typeof
TypeOf(v) ==
    CASE v[1] = "string"    -> "string"
      [] v[1] = "number"    -> "number"
      [] v[1] = "boolean"   -> "boolean"
      [] v[1] = "undefined" -> "undefined"
      [] OTHER              -> "object"     \* null, objects and arrays

Digit(d) == CASE d = 0 -> "0" [] d = 1 -> "1" [] d = 2 -> "2" [] d = 3 -> "3"
              [] d = 4 -> "4" [] d = 5 -> "5" [] d = 6 -> "6" [] d = 7 -> "7"
              [] d = 8 -> "8" [] d = 9 -> "9"

RECURSIVE NatToString(_)
NatToString(n) == IF n < 10 THEN << Digit(n) >>
                  ELSE NatToString(n \div 10) \o << Digit(n % 10) >>

\* String(n) of an integer
NumberToString(n) == IF n < 0 THEN << "-" >> \o NatToString(-n) ELSE NatToString(n)

\* String(v) for the types stats() hands to it (boolean, number, undefined)
String(v) ==
    CASE v[1] = "boolean"   -> JsString(IF v[2] THEN << "t", "r", "u", "e" >>
                                                ELSE << "f", "a", "l", "s", "e" >>)
      [] v[1] = "number"    -> JsString(NumberToString(v[2]))
      [] v[1] = "undefined" -> JsString(<< "u", "n", "d", "e", "f", "i", "n", "e", "d" >>)
      [] v[1] = "string"    -> v

RECURSIVE JsonMembers(_)
JsonMembers(kv) ==
    IF kv = << >> THEN << >>
    ELSE << "\"" >> \o kv[1][1] \o << "\"", ":" >> \o NumberToString(kv[1][2])
         \o (IF Len(kv) > 1 THEN << "," >> ELSE << >>) \o JsonMembers(Tail(kv))

RECURSIVE JsonElements(_)
JsonElements(xs) ==
    IF xs = << >> THEN << >>
    ELSE NumberToString(xs[1]) \o (IF Len(xs) > 1 THEN << "," >> ELSE << >>)
         \o JsonElements(Tail(xs))

\* String(JSON.stringify(v)) for null, a flat object, an array of numbers
JsonStringify(v) ==
    CASE v[1] = "null"   -> JsString(<< "n", "u", "l", "l" >>)
      [] v[1] = "object" -> JsString(<< "{" >> \o JsonMembers(v[2]) \o << "}" >>)
      [] v[1] = "array"  -> JsString(<< "[" >> \o JsonElements(v[2]) \o << "]" >>)

IsSpace(c) == c \in {" ", "\n"}

RECURSIVE TrimStart(_)
TrimStart(s) == IF s # << >> /\ IsSpace(s[1]) THEN TrimStart(Tail(s)) ELSE s

RECURSIVE TrimEnd(_)
TrimEnd(s) == IF s # << >> /\ IsSpace(s[Len(s)])
              THEN TrimEnd(SubSeq(s, 1, Len(s) - 1)) ELSE s

\* String.prototype.trim
Trim(s) == TrimEnd(TrimStart(s))

\* ------------------------------------------------------------------------
\* lodash startCase, on keys made of lower-case letters, upper-case letters
\* (each one starting a camelCase hump) and the separators '_', '-', ' '.

UpperOf(c) == CASE c = "a" -> "A" [] c = "b" -> "B" [] c = "c" -> "C"
                [] c = "k" -> "K" [] c = "x" -> "X" [] OTHER -> c

IsUpper(c) == c \in {"A", "B", "C", "K", "X"}
IsSeparator(c) == c \in {"_", "-", " ", "\n"}

\* the words of a key: separators delimit, an upper-case letter opens a word
RECURSIVE Words(_, _)
Words(s, cur) ==
    IF s = << >> THEN (IF cur = << >> THEN << >> ELSE << cur >>)
    ELSE IF IsSeparator(s[1])
         THEN (IF cur = << >> THEN << >> ELSE << cur >>) \o Words(Tail(s), << >>)
    ELSE IF IsUpper(s[1]) /\ cur # << >>
         THEN << cur >> \o Words(Tail(s), << s[1] >>)
    ELSE Words(Tail(s), Append(cur, s[1]))

UpperFirst(w) == << UpperOf(w[1]) >> \o Tail(w)

RECURSIVE JoinWords(_)
JoinWords(ws) ==
    IF ws = << >> THEN << >>
    ELSE UpperFirst(ws[1]) \o (IF Len(ws) > 1 THEN << " " >> ELSE << >>)
         \o JoinWords(Tail(ws))

startCase(s) == JoinWords(Words(s, << >>))

\* ------------------------------------------------------------------------
\* escapeText

SlackEscapeChar(c) ==
    CASE c = "<" -> << "&", "l", "t", ";" >>
      [] c = ">" -> << "&", "g", "t", ";" >>
      [] c = "&" -> << "&", "a", "m", "p", ";" >>
      [] OTHER   -> << c >>

\* Slack.escapeText: one pass replacing each of & < > by its entity
RECURSIVE SlackEscapeText(_)
SlackEscapeText(text) ==
    IF text = << >> THEN << >>
    ELSE SlackEscapeChar(text[1]) \o SlackEscapeText(Tail(text))

\* the length of the run of line breaks text starts with
RECURSIVE LineBreakRun(_)
LineBreakRun(text) ==
    IF text # << >> /\ text[1] = "\n" THEN 1 + LineBreakRun(Tail(text)) ELSE 0

Nbsp == << "&", "n", "b", "s", "p", ";" >>
BreakSeq == << " ", " ", " ", "\n" >>

\* the replacement of a run of n >= 1 line breaks
RECURSIVE TeamsBreaks(_)
TeamsBreaks(n) == IF n <= 1 THEN BreakSeq ELSE BreakSeq \o Nbsp \o TeamsBreaks(n - 1)

RECURSIVE TeamsReplaceRuns(_)
TeamsReplaceRuns(text) ==
    IF text = << >> THEN << >>
    ELSE LET n == LineBreakRun(text) IN
         IF n = 0 THEN << text[1] >> \o TeamsReplaceRuns(Tail(text))
         ELSE TeamsBreaks(n) \o TeamsReplaceRuns(SubSeq(text, n + 1, Len(text)))

\* Teams.escapeText: falsy input unchanged, else each run of line breaks replaced
TeamsEscapeText(text) == IF ~Truthy(text) THEN text ELSE TeamsReplaceRuns(text)

RECURSIVE ReplaceSpaces(_)
ReplaceSpaces(s) ==
    IF s = << >> THEN << >>
    ELSE (IF s[1] = " " THEN Nbsp ELSE << s[1] >>) \o ReplaceSpaces(Tail(s))


\* ------------------------------------------------------------------------
\* Bounds

\* attachments/sections a builder holds (send() of the Field-style builder
\* appends to the list too)
MaxRecords == 2
\* actions a builder holds
MaxActions == 2
\* HTTP requests awaiting their response
MaxPending == 1
\* keys of the keyValues object handed to stats()
MaxKeys == 2

\* ------------------------------------------------------------------------
\* State

VARIABLES
    provider,       \* "slack" (class Slack) or "teams" (class Teams): the builder's class
    logMode,        \* what logCondition() returns (cfg.isTest() unless overwritten)
    bugsUrl,        \* getPackageInfo().bugs.url, undefined when the package has none
    slackConf,      \* cfg('slack'): [webhook, token, channel]
    teamsConf,      \* cfg('teams.<channel>.<webhookName>'): path -> webhook URL
    defaultChannel, \* Teams._defaultChannel
    _text,          \* this._text
    _summary,       \* this._summary (Teams)
    _title,         \* this._title (Teams)
    _themeColor,    \* this._themeColor (Teams)
    _channel,       \* this._channel
    _attachments,   \* this._attachments (Slack)
    _sections,      \* this._sections (Teams)
    _errors,        \* this._errors
    _actions,       \* this._actions: a reference into arrays
    arrays,         \* the action arrays allocated so far (concat allocates, push mutates)
    nAdded,         \* attachments/sections the caller added through attachment/stats/error
    nActionsAdded,  \* actions the caller added through action/button/error
    statsArgs,      \* the arguments of the stats() call under study
    pending,        \* HTTP POSTs issued and not yet answered, oldest first
    lastSend,       \* what the latest send() did
    lastMessage,    \* the message the latest send() assembled
    lastResponse    \* what the latest answered POST led to

config  == << logMode, bugsUrl, slackConf, teamsConf, defaultChannel >>
builder == << _text, _summary, _title, _themeColor, _channel, _attachments, _sections,
              _errors, _actions, arrays, nAdded, nActionsAdded >>
network == << pending, lastSend, lastMessage, lastResponse >>
vars    == << provider, config, builder, statsArgs, network >>
\* ------------------------------------------------------------------------
\* Collaborators (consumed, not modelled further)

PackageName == << "app" >>       \* getPackageInfo().name
PackageVersion == << "1.0.0" >>  \* getPackageInfo().version
HostName == << "host" >>         \* os.hostname()
EnvName == << "env" >>           \* cfg.getEnv()
Now == << "now" >>               \* new Date().toLocaleString()
BugsUrl == << "https://bugs" >>  \* a bug-tracker URL
HookUrl == << "https://hook" >>  \* a webhook URL
Token == << "xoxb" >>            \* an API token

\* encodeURIComponent on the characters the model's strings are made of
EncodeChar(c) ==
    CASE c = " "  -> << "%20" >>
      [] c = "\n" -> << "%0A" >>
      [] c = "<"  -> << "%3C" >>
      [] c = ">"  -> << "%3E" >>
      [] c = "&"  -> << "%26" >>
      [] c = ":"  -> << "%3A" >>
      [] c = ";"  -> << "%3B" >>
      [] c = "["  -> << "%5B" >>
      [] c = "]"  -> << "%5D" >>
      [] OTHER    -> << c >>

RECURSIVE encodeURIComponent(_)
encodeURIComponent(s) ==
    IF s = << >> THEN << >> ELSE EncodeChar(s[1]) \o encodeURIComponent(Tail(s))

\* `${x}` of a string-valued property: undefined prints as 'undefined'
Interpolate(s) == IF s = undefined THEN << "undefined" >> ELSE s

\* a || b on strings
OrElse(a, b) == IF Truthy(a) THEN a ELSE b

\* the URL of the 'create issue' button (error(), both classes)
IssueUrl(base, label, title, err, stack) ==
    Interpolate(base) \o << "/new?title=" >>
    \o encodeURIComponent(label \o OrElse(title, err.message))
    \o << "&body=" >>
    \o encodeURIComponent(<< "Error encountered on " >> \o Now \o << "\n" >>
                          \o << "App version: v" >> \o PackageVersion \o << "\n", "\n" >>
                          \o << "Full Stack: " >> \o stack)
    \o << "&labels=bug" >>

\* Object.assign(target, source), source overriding properties target has
ObjectAssign(target, source) ==
    [k \in DOMAIN target |-> IF k \in DOMAIN source THEN source[k] ELSE target[k]]

\* an argument that is one record or an array of records: <<"one", r>>, <<"many", rs>>
AsArray(arg) == IF arg[1] = "many" THEN arg[2] ELSE << arg[2] >>

\* ------------------------------------------------------------------------
\* Records

\* A Field-style attachment.  id is the object's identity for the caller:
\* k > 0 for the k-th attachment the caller added, 0 for one send() makes.
\* actions is an array literal of the attachment's own, actionsRef > 0 a
\* reference to a shared action array (arrays[actionsRef]).
EmptyAttachment ==
    [id |-> 0, title |-> undefined, pretext |-> undefined, text |-> undefined,
     color |-> undefined, fallback |-> undefined, fields |-> << >>,
     actions |-> << >>, actionsRef |-> 0, footer |-> undefined]

\* A Card-style section.
EmptySection ==
    [id |-> 0, title |-> undefined, text |-> undefined, facts |-> << >>,
     activityTitle |-> undefined, activitySubtitle |-> undefined]

\* the footer suffix when no process-manager name/id is in the environment
FooterSuffix == << >>

\* getDefaultAttachments() of the Field-style class (ts left out)
Slack_getDefaultAttachments ==
    << [EmptyAttachment EXCEPT
          !.title = << "App Info:" >>,
          !.fields = << [title |-> << "Hostname" >>, value |-> JsString(HostName),
                         short |-> TRUE],
                        [title |-> << "Node Environment" >>, value |-> JsString(EnvName),
                         short |-> TRUE] >>,
          !.footer = PackageName \o << " v" >> \o PackageVersion \o << " " >>
                     \o FooterSuffix] >>

\* getDefaultAttachments() of the Card-style class
Teams_getDefaultAttachments ==
    << [EmptySection EXCEPT
          !.activityTitle = << "App Info:" >>,
          !.activitySubtitle = PackageName \o << " v" >> \o PackageVersion \o << " " >>
                               \o FooterSuffix \o << " | " >> \o Now,
          !.facts = << [name |-> << "Hostname" >>, value |-> JsString(HostName)],
                       [name |-> << "Node Environment" >>, value |-> JsString(EnvName)] >>] >>
\* ------------------------------------------------------------------------
\* stats(): from keyValues to fields/facts.  keyValues is the sequence of
\* <<key, value>> in Object.keys order; opts is [extraProps, ignoreUndefined].

\* the length up to which a field is short
ShortLimit == 30

\* the string made of a value: String(v), String(JSON.stringify(v)) or v, trimmed
StatsValue(v) ==
    LET s == IF TypeOf(v) \in {"boolean", "number", "undefined"} THEN String(v)
             ELSE IF TypeOf(v) # "string" THEN JsonStringify(v)
             ELSE v
    IN  JsString(Trim(s[2]))

\* the field pushed for one key
Slack_statsField(key, value) ==
    [title |-> startCase(Trim(key)),
     value |-> StatsValue(value),
     short |-> Len(StatsValue(value)[2]) <= ShortLimit /\ Len(key) <= ShortLimit]

\* Slack_statsFields with the ignoreUndefined option not looked at
RECURSIVE Slack_statsFields_alwaysIgnore(_, _)
Slack_statsFields_alwaysIgnore(keyValues, ignoreUndefined) ==
    IF keyValues = << >> THEN << >>
    ELSE (IF keyValues[1][2] = JsUndefined THEN << >>
          ELSE << Slack_statsField(keyValues[1][1], keyValues[1][2]) >>)
         \o Slack_statsFields_alwaysIgnore(Tail(keyValues), ignoreUndefined)

\* Object.keys(keyValues).forEach(...) of Slack.stats
RECURSIVE Slack_statsFields(_, _)
Slack_statsFields(keyValues, ignoreUndefined) ==
    IF keyValues = << >> THEN << >>
    ELSE (IF ignoreUndefined /\ keyValues[1][2] = JsUndefined THEN << >>
          ELSE << Slack_statsField(keyValues[1][1], keyValues[1][2]) >>)
         \o Slack_statsFields(Tail(keyValues), ignoreUndefined)

\* the attachment Slack.stats hands to attachment()
Slack_statsAttachment(title, keyValues, opts) ==
    LET attachment == ObjectAssign([EmptyAttachment EXCEPT
                                      !.color = << "#439FE0" >>,
                                      !.fallback = title,
                                      !.title = title,
                                      !.fields = << >>],
                                   opts.extraProps)
    IN  [attachment EXCEPT
           !.fields = @ \o Slack_statsFields(keyValues, opts.ignoreUndefined)]

\* the fact pushed for one key
Teams_statsFact(key, value) ==
    [name |-> startCase(Trim(key)),
     value |-> JsString(TeamsEscapeText(StatsValue(value)[2]))]

\* Object.keys(keyValues).forEach(...) of Teams.stats
RECURSIVE Teams_statsFacts(_, _)
Teams_statsFacts(keyValues, ignoreUndefined) ==
    IF keyValues = << >> THEN << >>
    ELSE (IF ignoreUndefined /\ keyValues[1][2] = JsUndefined THEN << >>
          ELSE << Teams_statsFact(keyValues[1][1], keyValues[1][2]) >>)
         \o Teams_statsFacts(Tail(keyValues), ignoreUndefined)

\* the section Teams.stats hands to attachment()
Teams_statsSection(title, keyValues, opts) ==
    [EmptySection EXCEPT
       !.title = title,
       !.facts = Teams_statsFacts(keyValues, opts.ignoreUndefined)]

\* ------------------------------------------------------------------------
\* The builders' lists

\* Slack_concatAttachments with the new records put in front
Slack_concatAttachments_prepend(list, arg) == AsArray(arg) \o list

\* Slack.attachment: this._attachments.concat(attachments)
Slack_concatAttachments(list, arg) == list \o AsArray(arg)

\* Teams.attachment: each section's text escaped when truthy, then concat
Teams_escapeSection(section) ==
    IF Truthy(section.text) THEN [section EXCEPT !.text = TeamsEscapeText(@)]
    ELSE section

Teams_concatSections(list, arg) ==
    list \o [i \in 1..Len(AsArray(arg)) |-> Teams_escapeSection(AsArray(arg)[i])]

\* action() of both classes: this._actions.concat(actions), a new array
ConcatActions(heap, ref, arg) == Append(heap, heap[ref] \o AsArray(arg))

\* Slack.button: this._actions.push(button), the same array
PushAction(heap, ref, button) == [heap EXCEPT ![ref] = Append(@, button)]

\* the button Slack.button makes (id: the caller's k-th action)
Slack_buttonRecord(id, text, url, style) ==
    [id |-> id, type |-> << "button" >>, text |-> text, url |-> url,
     style |-> IF Truthy(style) THEN style ELSE undefined]

\* the button Teams.button makes
Teams_buttonRecord(id, name, uri) ==
    [id |-> id, type |-> << "OpenUri" >>, name |-> name,
     targets |-> << [os |-> << "default" >>, uri |-> uri] >>]
\* ------------------------------------------------------------------------
\* error(): from an Error to what the builder shows

\* Slack.format(txt) with no options: bold
Slack_format(txt) == << "*" >> \o txt \o << "*" >>

\* the attachment Slack.error hands to attachment(); bugs is getPackageInfo().bugs.url
Slack_errorAttachment(bugs, err, label, title) ==
    LET pretext == SlackEscapeText(Slack_format(<< "Error" >>) \o << ":", " " >>
                                   \o err.message)
        attachment == [EmptyAttachment EXCEPT
                         !.pretext = pretext,
                         !.text = SlackEscapeText(err.stack),
                         !.color = << "danger" >>,
                         !.fallback = pretext]
    IN  IF Truthy(bugs)
        THEN [attachment EXCEPT
                !.actions = << Slack_buttonRecord(
                                 0, << "Create an issue for this error?" >>,
                                 IssueUrl(bugs,
                                          << "[" >> \o OrElse(label, err.name)
                                          \o << "]", " " >>,
                                          title, err, err.stack),
                                 << "danger" >>) >>]
        ELSE attachment

\* the button Teams.error adds, whatever bugs is; stack is err.stack after
\* its spaces were replaced
Teams_errorButton(id, bugs, err, label, title, stack) ==
    Teams_buttonRecord(id, << "Create an issue for this error?" >>,
                       IssueUrl(bugs,
                                << "[" >> \o OrElse(label, err.name) \o << "]", " " >>,
                                title, err, stack))

\* ------------------------------------------------------------------------
\* Channels and configuration.  A channel name is the sequence of its
\* dot-separated parts: 'ops' is <<"ops">>, 'ops.alerts' is <<"ops", "alerts">>,
\* '' is <<"">>.

DEFAULT_CHANNEL == << "default" >>
DEFAULT_WEBHOOK_NAME == "default"

EmptyChannel == << "" >>

\* Teams.defaultChannel (the getter)
Teams_defaultChannel ==
    IF defaultChannel = undefined \/ defaultChannel = EmptyChannel
    THEN DEFAULT_CHANNEL ELSE defaultChannel

\* the cfg path of a channel: `.default` appended when the name has no dot
WebhookPath(channel) ==
    IF Len(channel) > 1 THEN channel ELSE Append(channel, DEFAULT_WEBHOOK_NAME)

\* cfg(`teams.${channel}`)
CfgGet(conf, path) == IF path \in DOMAIN conf THEN conf[path] ELSE undefined

\* cfg.set(`teams.${channel}`, url)
CfgSet(conf, path, url) ==
    [p \in DOMAIN conf \cup {path} |-> IF p = path THEN url ELSE conf[p]]

\* getTeamsWebhookUrl(channel), channel defaulting to Teams.defaultChannel
getTeamsWebhookUrl(channel) ==
    CfgGet(teamsConf,
           WebhookPath(IF channel = undefined THEN Teams_defaultChannel ELSE channel))

\* ------------------------------------------------------------------------
\* The delivery pipeline

NoMessage ==
    [text |-> undefined, channel |-> undefined, username |-> undefined,
     attachments |-> << >>, summary |-> undefined, themeColor |-> undefined,
     title |-> undefined, sections |-> << >>, potentialAction |-> 0]

\* what a send() did: outcome is "rejected" (the promise is rejected before
\* any request), "logged" (test mode) or "posted" (a request was issued);
\* posts and infoLogs count the HTTP client's and logger.info's invocations
SendRecord(outcome, transport, url, posts, infoLogs, thrown, defaultAttachment) ==
    [outcome |-> outcome, transport |-> transport, url |-> url, posts |-> posts,
     infoLogs |-> infoLogs, thrown |-> thrown, defaultAttachment |-> defaultAttachment]

NoSend == SendRecord("none", "none", undefined, 0, 0, "none", FALSE)

NoResponse ==
    [transport |-> "none", kind |-> "none", statusCode |-> 0, body |-> "none",
     errorLogs |-> 0, promise |-> "none"]

\* what the HTTP client may answer: it raises, or returns a status and a body
\* that is JSON without an error member ("ok"), JSON with one ("error") or
\* no JSON at all ("text")
Responses ==
    { [kind |-> "exception", statusCode |-> 0, body |-> "none"] }
    \cup [kind : {"response"}, statusCode : {200, 500}, body : {"ok", "error", "text"}]

\* the attachments Slack.postMessage sends
Slack_finalAttachments(attachments, defaultAttachment) ==
    IF defaultAttachment THEN attachments \o Slack_getDefaultAttachments
    ELSE attachments

\* Teams_finalSections with the defaultAttachment option not looked at
Teams_finalSections_always(sections, defaultAttachment) ==
    sections \o Teams_getDefaultAttachments

\* the sections Teams.postMessage sends
Teams_finalSections(sections, defaultAttachment) ==
    IF defaultAttachment THEN sections \o Teams_getDefaultAttachments
    ELSE sections

\* Slack_transport preferring the token when one is configured
Slack_transport_tokenFirst(conf) ==
    IF Truthy(conf.token) \/ ~Truthy(conf.webhook) THEN "token" ELSE "webhook"

\* the transport Slack.postMessage picks outside test mode
Slack_transport(conf) == IF Truthy(conf.webhook) THEN "webhook" ELSE "token"

\* the URL a Slack transport posts to
Slack_url(conf) ==
    IF Slack_transport(conf) = "webhook" THEN conf.webhook
    ELSE << "https://slack.com/api/chat.postMessage" >>

\* Slack.postMessage
Slack_postMessage(text, channel, attachments, defaultAttachment) ==
    /\ lastMessage' = [NoMessage EXCEPT
                         !.text = text,
                         !.channel = IF channel = undefined THEN slackConf.channel
                                     ELSE channel,
                         !.username = << "slackbot" >>,
                         !.attachments = Slack_finalAttachments(attachments,
                                                                defaultAttachment)]
    /\ IF logMode
       THEN /\ lastSend' = SendRecord("logged", "none", undefined, 0, 1, "none",
                                      defaultAttachment)
            /\ pending' = pending
       ELSE /\ lastSend' = SendRecord("posted", Slack_transport(slackConf),
                                      Slack_url(slackConf), 1, 0, "none",
                                      defaultAttachment)
            /\ pending' = Append(pending, [transport |-> Slack_transport(slackConf),
                                           url |-> Slack_url(slackConf)])

\* Teams_postMessage with the webhook looked up, and its absence thrown,
\* before test mode is looked at
Teams_postMessage_webhookFirst(message, channel, defaultAttachment) ==
    LET webhookUrl == getTeamsWebhookUrl(channel) IN
    /\ lastMessage' = [message EXCEPT
                         !.sections = Teams_finalSections(@, defaultAttachment)]
    /\ IF ~Truthy(webhookUrl)
       THEN /\ lastSend' = SendRecord("rejected", "none", undefined, 0, 0,
                                      "No webhook url for channel", defaultAttachment)
            /\ pending' = pending
       ELSE IF logMode
       THEN /\ lastSend' = SendRecord("logged", "none", undefined, 0, 1, "none",
                                      defaultAttachment)
            /\ pending' = pending
       ELSE /\ lastSend' = SendRecord("posted", "teams", webhookUrl, 1, 0, "none",
                                      defaultAttachment)
            /\ pending' = Append(pending, [transport |-> "teams", url |-> webhookUrl])

\* Teams.postMessage
Teams_postMessage(message, channel, defaultAttachment) ==
    LET webhookUrl == getTeamsWebhookUrl(channel) IN
    /\ lastMessage' = [message EXCEPT
                         !.sections = Teams_finalSections(@, defaultAttachment)]
    /\ IF logMode
       THEN /\ lastSend' = SendRecord("logged", "none", undefined, 0, 1, "none",
                                      defaultAttachment)
            /\ pending' = pending
       ELSE IF ~Truthy(webhookUrl)
       THEN /\ lastSend' = SendRecord("rejected", "none", undefined, 0, 0,
                                      "No webhook url for channel", defaultAttachment)
            /\ pending' = pending
       ELSE /\ lastSend' = SendRecord("posted", "teams", webhookUrl, 1, 0, "none",
                                      defaultAttachment)
            /\ pending' = Append(pending, [transport |-> "teams", url |-> webhookUrl])

\* what a transport makes of the HTTP client's answer: the logger.error calls
\* and how the promise of send() settles

\* Slack._postWithToken: fetch and JSON.parse inside try, the catch logs
Slack_postWithToken(r) ==
    IF r.kind = "exception" \/ r.body = "text"
    THEN [errorLogs |-> 1, promise |-> "resolved"]
    ELSE [errorLogs |-> IF r.body = "error" THEN 1 ELSE 0, promise |-> "resolved"]

\* Slack._postWithWebhook: fetch inside try, the catch logs
Slack_postWithWebhook(r) ==
    IF r.kind = "exception"
    THEN [errorLogs |-> 1, promise |-> "resolved"]
    ELSE [errorLogs |-> IF r.statusCode # 200 THEN 1 ELSE 0, promise |-> "resolved"]

\* Teams._postMessage, inherited from Notify (not among the source files):
\* by the specification (delivery, step 7), a provider-reported error, a
\* non-2xx status and a transport-level exception are logged and swallowed
Teams__postMessage(r) ==
    IF r.kind = "exception" \/ r.statusCode # 200 \/ r.body = "error"
    THEN [errorLogs |-> 1, promise |-> "resolved"]
    ELSE [errorLogs |-> 0, promise |-> "resolved"]

Settle(transport, r) ==
    CASE transport = "token"   -> Slack_postWithToken(r)
      [] transport = "webhook" -> Slack_postWithWebhook(r)
      [] transport = "teams"   -> Teams__postMessage(r)

\* the sequence without its i-th element
RemoveAt(seq, i) == SubSeq(seq, 1, i - 1) \o SubSeq(seq, i + 1, Len(seq))
\* ------------------------------------------------------------------------
\* Inputs of the calls

SampleText == << "h", "i", "\n", "\n", "<", "b", ">" >>
SampleSummary == << "s", "u", "m" >>
Channels == { << "ops" >>, << "ops", "alerts" >>, EmptyChannel }
Errors == { [name |-> << "T", "y", "p", "e", "E", "r", "r", "o", "r" >>,
             message |-> << "a", " ", "<", " ", "b" >>,
             stack |-> << "T", "y", "p", "e", "E", "r", "r", "o", "r", ":", " ",
                          "a", " ", "<", " ", "b", "\n", " ", " ", "a", "t", " ",
                          "f", "&", "g" >>] }
Labels == { << >>, << "X" >> }

\* the k-th record a caller hands to attachment()
CallerAttachment(k, withText) ==
    [EmptyAttachment EXCEPT !.id = k, !.title = << "T" >>,
                            !.text = IF withText THEN SampleText ELSE undefined]

CallerSection(k, withText) ==
    [EmptySection EXCEPT !.id = k, !.title = << "T" >>,
                         !.text = IF withText THEN SampleText ELSE undefined]

\* the arguments of attachment() after n records: one record, an array of
\* two, an empty array
Slack_attachmentArgs(n) ==
    { << "one", CallerAttachment(n + 1, TRUE) >>,
      << "many", << CallerAttachment(n + 1, FALSE), CallerAttachment(n + 2, TRUE) >> >>,
      << "many", << >> >> }

Teams_attachmentArgs(n) ==
    { << "one", CallerSection(n + 1, TRUE) >>,
      << "many", << CallerSection(n + 1, FALSE), CallerSection(n + 2, TRUE) >> >>,
      << "many", << >> >> }

\* the arguments of action() after n actions: one record, an array of two
Slack_actionArgs(n) ==
    { << "one", Slack_buttonRecord(n + 1, << "go" >>, << "https://go" >>, << >>) >>,
      << "many", << Slack_buttonRecord(n + 1, << "yes" >>, << "https://yes" >>, << >>),
                    Slack_buttonRecord(n + 2, << "no" >>, << "https://no" >>,
                                       << "danger" >>) >> >> }

Teams_actionArgs(n) ==
    { << "one", Teams_buttonRecord(n + 1, << "go" >>, << "https://go" >>) >>,
      << "many", << Teams_buttonRecord(n + 1, << "yes" >>, << "https://yes" >>),
                    Teams_buttonRecord(n + 2, << "no" >>, << "https://no" >>) >> >> }

NoExtraProps == [k \in {} |-> undefined]

\* a stats() call of the builder specification
SmallStatsArgs ==
    { [title |-> << "S" >>,
       keyValues |-> << << << "a", "_", "b" >>, JsNumber(7) >>,
                        << << "c" >>, JsUndefined >> >>,
       opts |-> [extraProps |-> NoExtraProps, ignoreUndefined |-> TRUE]] }

\* ------------------------------------------------------------------------
\* The builder's calls

\* Slack.text
Slack_text(value) ==
    /\ provider = "slack"
    /\ _text' = value
    /\ UNCHANGED << provider, config, statsArgs, network, _summary, _title, _themeColor,
                    _channel, _attachments, _sections, _errors, _actions, arrays,
                    nAdded, nActionsAdded >>

\* Teams.text
Teams_text(value) ==
    /\ provider = "teams"
    /\ _text' = TeamsEscapeText(value)
    /\ UNCHANGED << provider, config, statsArgs, network, _summary, _title, _themeColor,
                    _channel, _attachments, _sections, _errors, _actions, arrays,
                    nAdded, nActionsAdded >>

\* channel() of both classes
channel(channelName) ==
    /\ _channel' = channelName
    /\ UNCHANGED << provider, config, statsArgs, network, _text, _summary, _title,
                    _themeColor, _attachments, _sections, _errors, _actions, arrays,
                    nAdded, nActionsAdded >>

\* Slack.summary: the fallback of the first attachment, when there is one
Slack_summary(fallback) ==
    /\ provider = "slack"
    /\ _attachments' = IF Len(_attachments) > 0
                       THEN [_attachments EXCEPT ![1].fallback = fallback]
                       ELSE _attachments
    /\ UNCHANGED << provider, config, statsArgs, network, _text, _summary, _title,
                    _themeColor, _channel, _sections, _errors, _actions, arrays,
                    nAdded, nActionsAdded >>

\* Teams.summary
Teams_summary(value) ==
    /\ provider = "teams"
    /\ _summary' = value
    /\ UNCHANGED << provider, config, statsArgs, network, _text, _title, _themeColor,
                    _channel, _attachments, _sections, _errors, _actions, arrays,
                    nAdded, nActionsAdded >>

\* Slack.attachment
Slack_attachment(arg) ==
    /\ provider = "slack"
    /\ Len(_attachments) + Len(AsArray(arg)) <= MaxRecords
    /\ _attachments' = Slack_concatAttachments(_attachments, arg)
    /\ nAdded' = nAdded + Len(AsArray(arg))
    /\ UNCHANGED << provider, config, statsArgs, network, _text, _summary, _title,
                    _themeColor, _channel, _sections, _errors, _actions, arrays,
                    nActionsAdded >>

\* Teams.attachment
Teams_attachment(arg) ==
    /\ provider = "teams"
    /\ Len(_sections) + Len(AsArray(arg)) <= MaxRecords
    /\ _sections' = Teams_concatSections(_sections, arg)
    /\ nAdded' = nAdded + Len(AsArray(arg))
    /\ UNCHANGED << provider, config, statsArgs, network, _text, _summary, _title,
                    _themeColor, _channel, _attachments, _errors, _actions, arrays,
                    nActionsAdded >>

\* action() of both classes
action(arg) ==
    /\ Len(arrays[_actions]) + Len(AsArray(arg)) <= MaxActions
    /\ arrays' = ConcatActions(arrays, _actions, arg)
    /\ _actions' = Len(arrays) + 1
    /\ nActionsAdded' = nActionsAdded + Len(AsArray(arg))
    /\ UNCHANGED << provider, config, statsArgs, network, _text, _summary, _title,
                    _themeColor, _channel, _attachments, _sections, _errors, nAdded >>

\* Slack.button
Slack_button(text, url, style) ==
    /\ provider = "slack"
    /\ Len(arrays[_actions]) < MaxActions
    /\ arrays' = PushAction(arrays, _actions,
                            Slack_buttonRecord(nActionsAdded + 1, text, url, style))
    /\ nActionsAdded' = nActionsAdded + 1
    /\ UNCHANGED << provider, config, statsArgs, network, _text, _summary, _title,
                    _themeColor, _channel, _attachments, _sections, _errors, _actions,
                    nAdded >>

\* Teams.button: this.action(button)
Teams_button(name, uri) ==
    /\ provider = "teams"
    /\ action(<< "one", Teams_buttonRecord(nActionsAdded + 1, name, uri) >>)

\* Slack.error
Slack_error(err, label, title) ==
    /\ provider = "slack"
    /\ Len(_attachments) < MaxRecords
    /\ _errors' = Append(_errors, err)
    /\ _attachments' = Slack_concatAttachments(
                           _attachments,
                           << "one", [Slack_errorAttachment(bugsUrl, err, label, title)
                                        EXCEPT !.id = nAdded + 1] >>)
    /\ nAdded' = nAdded + 1
    /\ UNCHANGED << provider, config, statsArgs, network, _text, _summary, _title,
                    _themeColor, _channel, _sections, _actions, arrays, nActionsAdded >>

\* Teams.error: err.stack rewritten in place, then color, title, text, button
Teams_error(err, label, title) ==
    LET stack == ReplaceSpaces(err.stack) IN
    /\ provider = "teams"
    /\ Len(arrays[_actions]) < MaxActions
    /\ _errors' = Append(_errors, [err EXCEPT !.stack = stack])
    /\ _themeColor' = << "F00" >>
    /\ _title' = << "Error: " >> \o err.message
    /\ _text' = TeamsEscapeText(stack)
    /\ arrays' = ConcatActions(arrays, _actions,
                               << "one", Teams_errorButton(nActionsAdded + 1, bugsUrl,
                                                           err, label, title, stack) >>)
    /\ _actions' = Len(arrays) + 1
    /\ nActionsAdded' = nActionsAdded + 1
    /\ UNCHANGED << provider, config, statsArgs, network, _summary, _channel,
                    _attachments, _sections, nAdded >>

\* Slack.stats
Slack_stats(title, keyValues, opts) ==
    /\ provider = "slack"
    /\ Len(_attachments) < MaxRecords
    /\ _attachments' = Slack_concatAttachments(
                           _attachments,
                           << "one", [Slack_statsAttachment(title, keyValues, opts)
                                        EXCEPT !.id = nAdded + 1] >>)
    /\ nAdded' = nAdded + 1
    /\ UNCHANGED << provider, config, statsArgs, network, _text, _summary, _title,
                    _themeColor, _channel, _sections, _errors, _actions, arrays,
                    nActionsAdded >>

\* Teams.stats
Teams_stats(title, keyValues, opts) ==
    /\ provider = "teams"
    /\ Len(_sections) < MaxRecords
    /\ _sections' = Teams_concatSections(
                        _sections,
                        << "one", [Teams_statsSection(title, keyValues, opts)
                                     EXCEPT !.id = nAdded + 1] >>)
    /\ nAdded' = nAdded + 1
    /\ UNCHANGED << provider, config, statsArgs, network, _text, _summary, _title,
                    _themeColor, _channel, _attachments, _errors, _actions, arrays,
                    nActionsAdded >>
\* the attachment Slack.send appends when the builder has actions: it holds
\* the builder's own action array
Slack_actionsAttachment(ref) ==
    [EmptyAttachment EXCEPT !.title = << >>, !.actionsRef = ref]

\* this._attachments as Slack.send leaves it
Slack_sendAttachments(list, heap, ref) ==
    IF Len(heap[ref]) > 0
    THEN Slack_concatAttachments(list, << "one", Slack_actionsAttachment(ref) >>)
    ELSE list

\* Slack.send (the extraProps of the call and of username()/icon() left out)
Slack_send(defaultAttachment) ==
    /\ provider = "slack"
    /\ Len(Slack_sendAttachments(_attachments, arrays, _actions)) <= MaxRecords
    /\ ~logMode => Len(pending) < MaxPending
    /\ _attachments' = Slack_sendAttachments(_attachments, arrays, _actions)
    /\ Slack_postMessage(_text, _channel,
                         Slack_sendAttachments(_attachments, arrays, _actions),
                         defaultAttachment)
    /\ lastResponse' = lastResponse
    /\ UNCHANGED << provider, config, statsArgs, _text, _summary, _title, _themeColor,
                    _channel, _sections, _errors, _actions, arrays, nAdded,
                    nActionsAdded >>

\* Teams_sendInvalid asking for both summary and text
Teams_sendInvalid_either(summary, text) == ~Truthy(summary) \/ ~Truthy(text)

\* whether Teams.send throws 'Either summary or text is required'
Teams_sendInvalid(summary, text) == ~Truthy(summary) /\ ~Truthy(text)

\* the message Teams.send hands to postMessage
Teams_message ==
    [NoMessage EXCEPT
       !.summary = _summary, !.themeColor = _themeColor, !.title = _title,
       !.text = _text, !.sections = _sections, !.potentialAction = _actions]

\* Teams.send
Teams_send(defaultAttachment) ==
    /\ provider = "teams"
    /\ ~logMode => Len(pending) < MaxPending
    /\ IF Teams_sendInvalid(_summary, _text)
       THEN /\ lastSend' = SendRecord("rejected", "none", undefined, 0, 0,
                                      "Either summary or text is required",
                                      defaultAttachment)
            /\ lastMessage' = NoMessage
            /\ pending' = pending
       ELSE Teams_postMessage(Teams_message, _channel, defaultAttachment)
    /\ lastResponse' = lastResponse
    /\ UNCHANGED << provider, config, statsArgs, builder >>

\* the HTTP client answers the i-th request in flight (or raises)
Respond(i, r) ==
    /\ i \in 1..Len(pending)
    /\ pending' = RemoveAt(pending, i)
    /\ lastResponse' = [transport |-> pending[i].transport, kind |-> r.kind,
                        statusCode |-> r.statusCode, body |-> r.body,
                        errorLogs |-> Settle(pending[i].transport, r).errorLogs,
                        promise |-> Settle(pending[i].transport, r).promise]
    /\ UNCHANGED << provider, config, statsArgs, builder, lastSend, lastMessage >>

\* Slack.setWebhook
Slack_setWebhook(webhookUrl) ==
    /\ provider = "slack"
    /\ slackConf' = [slackConf EXCEPT !.webhook = webhookUrl]
    /\ UNCHANGED << provider, logMode, bugsUrl, teamsConf, defaultChannel, statsArgs,
                    builder, network >>

\* Slack.setToken
Slack_setToken(token) ==
    /\ provider = "slack"
    /\ slackConf' = [slackConf EXCEPT !.token = token]
    /\ UNCHANGED << provider, logMode, bugsUrl, teamsConf, defaultChannel, statsArgs,
                    builder, network >>

\* Teams.setWebhook(webhookUrl, channel), channel defaulting to Teams.defaultChannel
Teams_setWebhook(webhookUrl, channelName) ==
    /\ provider = "teams"
    /\ teamsConf' = CfgSet(teamsConf,
                           WebhookPath(IF channelName = undefined
                                       THEN Teams_defaultChannel ELSE channelName),
                           webhookUrl)
    /\ UNCHANGED << provider, logMode, bugsUrl, slackConf, defaultChannel, statsArgs,
                    builder, network >>

\* ------------------------------------------------------------------------
\* Specifications

\* the state new Slack() / new Teams() leaves, for one configuration
NewBuilder ==
    /\ _text = undefined
    /\ _summary = undefined
    /\ _title = undefined
    /\ _themeColor = IF provider = "teams" THEN << "439FE0" >> ELSE undefined
    /\ _channel = undefined
    /\ _attachments = << >>
    /\ _sections = << >>
    /\ _errors = << >>
    /\ arrays = << << >> >>
    /\ _actions = 1
    /\ nAdded = 0
    /\ nActionsAdded = 0

Idle ==
    /\ pending = << >>
    /\ lastSend = NoSend
    /\ lastMessage = NoMessage
    /\ lastResponse = NoResponse

Init ==
    /\ provider \in {"slack", "teams"}
    /\ logMode \in BOOLEAN
    /\ bugsUrl \in {undefined, BugsUrl}
    /\ slackConf = [webhook |-> << >>, token |-> << >>, channel |-> EmptyChannel]
    /\ teamsConf = [p \in {} |-> undefined]
    /\ defaultChannel \in {undefined, << "ops" >>}
    /\ statsArgs \in SmallStatsArgs
    /\ NewBuilder
    /\ Idle

\* the calls that fill the builder's lists
BuildCalls ==
    \/ \E arg \in Slack_attachmentArgs(nAdded) : Slack_attachment(arg)
    \/ \E arg \in Teams_attachmentArgs(nAdded) : Teams_attachment(arg)
    \/ \E arg \in Slack_actionArgs(nActionsAdded) : provider = "slack" /\ action(arg)
    \/ \E arg \in Teams_actionArgs(nActionsAdded) : provider = "teams" /\ action(arg)
    \/ Slack_button(<< "open" >>, << "https://open" >>, << >>)
    \/ Teams_button(<< "open" >>, << "https://open" >>)
    \/ \E err \in Errors, label \in Labels : Slack_error(err, label, << >>)
    \/ \E err \in Errors, label \in Labels : Teams_error(err, label, << >>)
    \/ \E a \in SmallStatsArgs : Slack_stats(a.title, a.keyValues, a.opts)
    \/ \E a \in SmallStatsArgs : Teams_stats(a.title, a.keyValues, a.opts)
    \/ Slack_summary(SampleSummary)

\* the calls that set what is sent and where
AddressCalls ==
    \/ Slack_text(SampleText)
    \/ Teams_text(SampleText)
    \/ Teams_summary(SampleSummary)
    \/ \E c \in Channels : channel(c)

ConfigCalls ==
    \/ Slack_setWebhook(HookUrl)
    \/ Slack_setWebhook(<< >>)
    \/ Slack_setToken(Token)
    \/ \E c \in {undefined, << "ops", "alerts" >>} : Teams_setWebhook(HookUrl, c)

SendCalls ==
    \/ \E d \in BOOLEAN : Slack_send(d)
    \/ \E d \in BOOLEAN : Teams_send(d)

Responds == \E i \in 1..MaxPending, r \in Responses : Respond(i, r)

Next == BuildCalls \/ AddressCalls \/ ConfigCalls \/ SendCalls \/ Responds

\* every call, every configuration
Spec == Init /\ [][Next]_vars

\* the builder: its lists and the message send() assembles from them, run in
\* test mode (the message is assembled before test mode is looked at)
InitBuild == Init /\ logMode /\ defaultChannel = undefined

NextBuild == BuildCalls \/ Teams_summary(SampleSummary) \/ SendCalls

SpecBuild == InitBuild /\ [][NextBuild]_vars

\* the delivery pipeline: text, summary, channel, configuration, send, response
InitDeliver == Init /\ bugsUrl = undefined

NextDeliver == AddressCalls \/ ConfigCalls \/ SendCalls \/ Responds

SpecDeliver == InitDeliver /\ [][NextDeliver]_vars
\* stats() alone: one call on a new builder, its arguments drawn at the start

Rep(c, n) == [i \in 1..n |-> c]

\* keys: snake_case; as long as the limit; one longer; camelCase as long as
\* the limit (its Title Case is longer); one character and trailing spaces
\* past the limit (its Title Case is one character)
StatsKeys ==
    { << "a", "_", "b" >>,
      Rep("a", ShortLimit),
      Rep("a", ShortLimit + 1),
      Rep("a", ShortLimit - 25) \o << "B" >> \o Rep("a", 4) \o << "C" >> \o Rep("a", 4)
        \o << "K" >> \o Rep("a", 4) \o << "X" >> \o Rep("a", 4) \o << "B" >>
        \o Rep("a", 4),
      << "k" >> \o Rep(" ", ShortLimit) }

StatsValues ==
    { JsBoolean(TRUE),
      JsNumber(-42),
      JsString(<< " ", "h", "i", "\n" >>),
      JsString(Rep("x", ShortLimit + 1)),
      JsNull,
      JsObject(<< << << "k" >>, 1 >> >>),
      JsArray(<< 1, 20 >>),
      JsUndefined }

\* the keyValues objects of at most n keys, in Object.keys order
RECURSIVE KeyValues(_)
KeyValues(n) ==
    IF n = 0 THEN { << >> }
    ELSE LET shorter == KeyValues(n - 1) IN
         shorter \cup
         { Append(kv, << k, v >>) :
             kv \in { x \in shorter : Len(x) = n - 1 },
             k \in StatsKeys, v \in StatsValues }

DistinctKeys(kv) == \A i, j \in 1..Len(kv) : i # j => kv[i][1] # kv[j][1]

\* extraProps that set no fields, and extraProps that bring the fields array
StatsExtraProps ==
    { NoExtraProps,
      [fields |-> << [title |-> << "P" >>, value |-> JsNumber(1), short |-> TRUE] >>] }

StatsArgs ==
    [title : { << "S" >> },
     keyValues : { kv \in KeyValues(MaxKeys) : DistinctKeys(kv) },
     opts : [extraProps : StatsExtraProps, ignoreUndefined : BOOLEAN]]

InitStats ==
    /\ provider \in {"slack", "teams"}
    /\ logMode = TRUE
    /\ bugsUrl = undefined
    /\ slackConf = [webhook |-> << >>, token |-> << >>, channel |-> EmptyChannel]
    /\ teamsConf = [p \in {} |-> undefined]
    /\ defaultChannel = undefined
    /\ statsArgs \in StatsArgs
    /\ provider = "teams" => statsArgs.opts.extraProps = NoExtraProps
    /\ NewBuilder
    /\ Idle

NextStats ==
    \/ nAdded = 0 /\ Slack_stats(statsArgs.title, statsArgs.keyValues, statsArgs.opts)
    \/ nAdded = 0 /\ Teams_stats(statsArgs.title, statsArgs.keyValues, statsArgs.opts)

SpecStats == InitStats /\ [][NextStats]_vars
\* ------------------------------------------------------------------------
\* Properties of the delivery pipeline (SpecDeliver)

\* a message Card-style send() accepts: summary or text is set
ValidMessage == provider = "teams" => (Truthy(_summary) \/ Truthy(_text))

\* the channel a Card-style send() resolves: the builder's, else the default
\* channel; and its configuration path
ResolvedChannel ==
    IF _channel # undefined THEN _channel
    ELSE IF defaultChannel # undefined THEN defaultChannel
    ELSE << "default" >>

ResolvedPath ==
    IF Len(ResolvedChannel) = 1 THEN ResolvedChannel \o << "default" >>
    ELSE ResolvedChannel

WebhookConfigured ==
    ResolvedPath \in DOMAIN teamsConf /\ teamsConf[ResolvedPath] = HookUrl

\* a response that reports a failure: the HTTP client raised, the status is
\* not 2xx, the body carries an error, or (where the body is parsed) it
\* cannot be parsed
FailureResponse(r) ==
    \/ r.kind = "exception"
    \/ r.statusCode \notin 200..299
    \/ r.body = "error"
    \/ (r.transport = "token" /\ r.body = "text")

\* C1: whatever the HTTP client answers (a 2xx or non-2xx status, a body
\* carrying a provider-reported error, an unparsable body, an exception), on
\* the webhook and on the token transport, the promise of send() resolves
\* and the failure is logged.
NetworkFailureLoggedAndContained ==
    lastResponse.kind # "none" =>
        /\ lastResponse.promise = "resolved"
        /\ FailureResponse(lastResponse) => lastResponse.errorLogs >= 1

\* the containment half of C1 alone: no answer makes the promise reject
NetworkPhaseNeverRejects ==
    lastResponse.kind # "none" => lastResponse.promise = "resolved"

\* C2: in test mode a send() of a valid message invokes the HTTP client zero
\* times, logs the message exactly once and does not raise, whatever the
\* webhook/token configuration.
TestModeSendOnlyLogs ==
    [][(logMode /\ ValidMessage /\ SendCalls) =>
          /\ lastSend'.outcome = "logged"
          /\ lastSend'.posts = 0
          /\ lastSend'.infoLogs = 1
          /\ pending' = pending]_vars

\* a Card-style message was logged in test mode with no webhook configured
TestModeSendWitness ==
    /\ provider = "teams"
    /\ logMode
    /\ lastSend.outcome = "logged"
    /\ lastMessage.text = TeamsEscapeText(SampleText)
    /\ teamsConf = [p \in {} |-> undefined]

\* C3: outside test mode a send() that does not raise issues exactly one
\* POST: to the webhook if one is configured at that moment, else
\* (Field-style) to the token API; an answer, failure or not, leads to no
\* further POST.
OnePostOnOneTransport ==
    [][/\ (~logMode /\ SendCalls /\ lastSend'.outcome # "rejected") =>
            /\ lastSend'.outcome = "posted"
            /\ lastSend'.posts = 1
            /\ Len(pending') = Len(pending) + 1
            /\ pending'[Len(pending')].transport = lastSend'.transport
            /\ pending'[Len(pending')].url = lastSend'.url
            /\ IF provider = "teams"
               THEN lastSend'.transport = "teams" /\ lastSend'.url = teamsConf[ResolvedPath]
               ELSE IF slackConf.webhook = HookUrl
               THEN lastSend'.transport = "webhook" /\ lastSend'.url = HookUrl
               ELSE lastSend'.transport = "token"
       /\ ~SendCalls => Len(pending') <= Len(pending)
       /\ Responds => Len(pending') = Len(pending) - 1]_vars

\* a Field-style send() went to the webhook although a token was configured,
\* its POST failed and nothing else is in flight
OnePostWitness ==
    /\ provider = "slack"
    /\ lastSend.outcome = "posted"
    /\ lastSend.transport = "webhook"
    /\ slackConf.token = Token
    /\ lastResponse.transport = "webhook"
    /\ lastResponse.statusCode = 500
    /\ pending = << >>

\* C4: Card-style send() raises exactly when (a) neither summary nor text is
\* set, test mode or not and before anything is logged or posted, or (b) test
\* mode is off and no webhook URL is configured for the resolved channel;
\* otherwise it does not raise, whatever the HTTP client answers.
CardSendRaisesOnlyOnMisconfiguration ==
    /\ [][(provider = "teams" /\ SendCalls) =>
            /\ (lastSend'.outcome = "rejected") <=>
                   (~ValidMessage \/ (~logMode /\ ~WebhookConfigured))
            /\ ~ValidMessage =>
                   lastSend'.thrown = "Either summary or text is required"
            /\ lastSend'.outcome = "rejected" =>
                   /\ lastSend'.posts = 0
                   /\ lastSend'.infoLogs = 0
                   /\ pending' = pending]_vars
    /\ [](lastResponse.transport = "teams" => lastResponse.promise = "resolved")

\* a valid Card-style message for channel 'ops' was refused for want of a
\* webhook while the default channel had one
CardSendWitness ==
    /\ provider = "teams"
    /\ ~logMode
    /\ _channel = << "ops" >>
    /\ Truthy(_text)
    /\ WebhookPath(Teams_defaultChannel) \in DOMAIN teamsConf
    /\ lastSend.outcome = "rejected"
    /\ lastSend.thrown = "No webhook url for channel"
\* ------------------------------------------------------------------------
\* Properties of the builder (SpecBuild)

\* the builder's attachment/section list and the list of the assembled message
BuilderList == IF provider = "slack" THEN _attachments ELSE _sections
MessageList == IF provider = "slack" THEN lastMessage.attachments
               ELSE lastMessage.sections

\* the ids of the records of a list the caller added, in list order
RECURSIVE CallerIds(_)
CallerIds(list) ==
    IF list = << >> THEN << >>
    ELSE (IF list[1].id > 0 THEN << list[1].id >> ELSE << >>) \o CallerIds(Tail(list))

\* the ids of all the records of a list
AllIds(list) == [i \in 1..Len(list) |-> list[i].id]

\* 1, 2, ..., n
UpTo(n) == [i \in 1..n |-> i]

\* the records of a list send() itself appended
SendMade(list) == Len(list) - Len(CallerIds(list))

\* the default-context record of the provider
DefaultRecord == IF provider = "slack" THEN Slack_getDefaultAttachments[1]
                 ELSE Teams_getDefaultAttachments[1]

\* a send() that assembled a message
Assembling == SendCalls /\ lastSend'.thrown # "Either summary or text is required"

DefaultCount == IF lastSend.defaultAttachment THEN 1 ELSE 0

\* C5 as stated: the message send() assembles holds as many
\* attachments/sections as the caller added through attachment(), stats()
\* and error(), plus exactly one with defaultAttachment true and none with
\* false, whatever button()/action() calls were made.
PayloadCountIsCallerCountPlusDefault ==
    [][Assembling => Len(MessageList') = nAdded + DefaultCount']_vars

\* C5 as amended: the message holds the builder's list as send() leaves it,
\* plus exactly one default record with defaultAttachment true and none with
\* false.  On the Card-style builder, and on the Field-style builder with no
\* action, that list is what the caller added.  A Field-style send() made
\* while the builder holds an action first appends one attachment carrying
\* the actions to the builder's list, so the message holds what the caller
\* added, one attachment per such send() so far, and the default one.
PayloadCountWithActionsAttachment ==
    [][Assembling =>
          LET a == IF provider = "slack" /\ Len(arrays[_actions]) > 0 THEN 1 ELSE 0 IN
          /\ SendMade(BuilderList') = SendMade(BuilderList) + a
          /\ Len(CallerIds(BuilderList')) = nAdded
          /\ Len(MessageList') = nAdded + SendMade(BuilderList') + DefaultCount'
          /\ (provider = "teams" \/ Len(arrays[_actions]) = 0) =>
                 SendMade(BuilderList') = SendMade(BuilderList)
          /\ (provider = "teams" \/ nActionsAdded = 0) =>
                 Len(MessageList') = nAdded + DefaultCount']_vars

\* a Field-style message with the default attachment and an attachment of
\* actions beside the one the caller added
PayloadCountWitness ==
    /\ provider = "slack"
    /\ lastSend.outcome = "logged"
    /\ lastSend.defaultAttachment
    /\ nAdded = 1
    /\ nActionsAdded > 0
    /\ Len(lastMessage.attachments) = 3

\* C6: error(err) appends exactly one attachment/section, of a failure color
\* and with the escaped err.stack as its body, records err, and adds a
\* 'create issue' button if and only if the package has a bug-tracker URL.
ErrorAppendsOneRecord ==
    [][\A err \in Errors, label \in Labels :
          (Slack_error(err, label, << >>) \/ Teams_error(err, label, << >>)) =>
              /\ Len(BuilderList') = Len(BuilderList) + 1
              /\ BuilderList'[Len(BuilderList')].color \in {<< "danger" >>, << "F00" >>}
              /\ BuilderList'[Len(BuilderList')].text
                     = (IF provider = "slack" THEN SlackEscapeText(err.stack)
                        ELSE TeamsEscapeText(err.stack))
              /\ Len(_errors') = Len(_errors) + 1
              /\ _errors'[Len(_errors')].message = err.message
              /\ (Len(BuilderList'[Len(BuilderList')].actions)
                  + Len(arrays'[_actions']) - Len(arrays[_actions]) = 1)
                     <=> Truthy(bugsUrl)
              /\ ~Truthy(bugsUrl) =>
                     /\ BuilderList'[Len(BuilderList')].actions = << >>
                     /\ arrays'[_actions'] = arrays[_actions]]_vars

\* the Field-style half of C6, which the code keeps
SlackErrorAppendsOneAttachment ==
    [][\A err \in Errors, label \in Labels :
          Slack_error(err, label, << >>) =>
              /\ Len(_attachments') = Len(_attachments) + 1
              /\ _attachments'[Len(_attachments')].color = << "danger" >>
              /\ _attachments'[Len(_attachments')].text = SlackEscapeText(err.stack)
              /\ _errors' = Append(_errors, err)
              /\ Len(_attachments'[Len(_attachments')].actions)
                     = (IF Truthy(bugsUrl) THEN 1 ELSE 0)
              /\ arrays' = arrays /\ _actions' = _actions]_vars

\* C8: send() leaves the builder's attachment/section list and its action
\* list as they were.
SendLeavesBuilderUnchanged ==
    [][SendCalls =>
          /\ _attachments' = _attachments
          /\ _sections' = _sections
          /\ arrays'[_actions'] = arrays[_actions]]_vars

\* C9: the builder's attachment/section list and its action list hold the
\* records the caller added, each once and in the order added (array order
\* within one call), and nothing else before the first send(); the message
\* send() assembles holds the caller's records in that order and the
\* default record, when asked for, after all of them.
InsertionOrderKept ==
    /\ [](/\ CallerIds(BuilderList) = UpTo(nAdded)
          /\ AllIds(arrays[_actions]) = UpTo(nActionsAdded)
          /\ lastSend = NoSend => Len(BuilderList) = nAdded)
    /\ [][Assembling =>
            /\ CallerIds(MessageList') = UpTo(nAdded)
            /\ lastSend'.defaultAttachment =>
                   /\ MessageList'[Len(MessageList')] = DefaultRecord
                   /\ \A i \in 1..(Len(MessageList') - 1) :
                          MessageList'[i] # DefaultRecord
            /\ ~lastSend'.defaultAttachment =>
                   \A i \in 1..Len(MessageList') : MessageList'[i] # DefaultRecord]_vars

\* a Field-style message of two attachments added as one array, two actions
\* and the default attachment
InsertionOrderWitness ==
    /\ provider = "slack"
    /\ nAdded = 2
    /\ nActionsAdded = 2
    /\ _attachments[1].text = undefined
    /\ lastSend.outcome = "logged"
    /\ lastSend.defaultAttachment
    /\ CallerIds(lastMessage.attachments) = << 1, 2 >>
\* ------------------------------------------------------------------------
\* Properties of stats() (SpecStats)

\* the fields/facts of the record stats() added
StatsEntries == IF provider = "slack" THEN _attachments[1].fields
                ELSE _sections[1].facts

\* the title of a field, the name of a fact
EntryTitle(e) == IF provider = "slack" THEN e.title ELSE e.name

\* the keys of keyValues that get an entry, in key order
KeptKeys ==
    SelectSeq(statsArgs.keyValues,
              LAMBDA kv : ~statsArgs.opts.ignoreUndefined \/ kv[2] # JsUndefined)

\* the fields the caller's extraProps bring
CallerFields ==
    IF provider = "slack" /\ "fields" \in DOMAIN statsArgs.opts.extraProps
    THEN statsArgs.opts.extraProps.fields
    ELSE << >>

\* the entries from position `from` on are the entries of the kept keys
EntriesOfKeptKeys(from) ==
    /\ Len(StatsEntries) = from + Len(KeptKeys)
    /\ \A i \in 1..Len(KeptKeys) :
          LET e == StatsEntries[from + i] IN
          /\ EntryTitle(e) = startCase(Trim(KeptKeys[i][1]))
          /\ e.value[1] = "string"
          /\ KeptKeys[i][2] = JsUndefined =>
                 e.value = JsString(<< "u", "n", "d", "e", "f", "i", "n", "e", "d" >>)

\* C7 as stated: stats() appends exactly one attachment/section whose
\* fields/facts are, in key order, one entry per key of keyValues, the keys
\* of an undefined value left out when ignoreUndefined is true and rendered
\* as 'undefined' when it is false, every entry's value a string.
StatsOneEntryPerKey ==
    nAdded = 1 => Len(BuilderList) = 1 /\ EntriesOfKeptKeys(0)

\* C7 as amended: stats() appends exactly one attachment/section whose
\* fields/facts are the entries of the caller's extraProps.fields, if the
\* caller gave any (Field-style only), followed in key order by one entry
\* per key of keyValues, the keys of an undefined value left out when
\* ignoreUndefined is true and rendered as 'undefined' when it is false,
\* every such entry's value a string.
StatsOneEntryPerKeyAfterCallerFields ==
    nAdded = 1 =>
        /\ Len(BuilderList) = 1
        /\ Len(StatsEntries) >= Len(CallerFields)
        /\ SubSeq(StatsEntries, 1, Len(CallerFields)) = CallerFields
        /\ EntriesOfKeptKeys(Len(CallerFields))

\* stats() called with ignoreUndefined false, a key of an undefined value
\* and a fields array in extraProps
StatsWitness ==
    /\ provider = "slack"
    /\ nAdded = 1
    /\ ~statsArgs.opts.ignoreUndefined
    /\ Len(statsArgs.keyValues) = 2
    /\ statsArgs.keyValues[2][2] = JsUndefined
    /\ CallerFields # << >>
    /\ Len(_attachments[1].fields) = 3

\* C10: a field of Field-style stats() is short if and only if its title
\* (the humanized key) and its value (the trimmed string) are both at most
\* 30 characters long.
ShortIffTitleAndValueFit ==
    (provider = "slack" /\ nAdded = 1) =>
        \A i \in (Len(CallerFields) + 1)..Len(StatsEntries) :
            StatsEntries[i].short
                <=> (Len(StatsEntries[i].title) <= 30
                     /\ Len(StatsEntries[i].value[2]) <= 30)
====
